---- MODULE Spec2Model ----
(***************************************************************************)
(* Model of the map pipeline of rusty_jam: the sprite-sheet material       *)
(* allocator (src/src/map/loading.rs, SpriteSheet / MaterialAllocator) and *)
(* the map synchronizer (detect_changes / update_map) together with the    *)
(* two placement systems of src/src/map/mod.rs.                            *)
(*                                                                         *)
(* Numbers: f32 UV coordinates are modelled as exact fractions <<n, d>>    *)
(* (numerator, denominator); two fractions are compared by cross           *)
(* multiplication.  u32 division and remainder panic on a zero divisor.    *)
(***************************************************************************)
EXTENDS Integers, Sequences, FiniteSets, TLC

\* Option::None of a decoded image size, of a material handle, of a rect
NoImage == << >>
NoHandle == 0
NoRect == [top |-> <<0, 0>>, left |-> <<0, 0>>, bottom |-> <<0, 0>>, right |-> <<0, 0>>]

(***************************************************************************)
(* Bounds                                                                  *)
(***************************************************************************)
\* highest sprite index a harness call passes
MaxIndex == 6
\* number of allocator calls of one harness run
MaxCalls == 2

(***************************************************************************)
(* Inputs of the allocator harness                                         *)
(***************************************************************************)
\* pixel sizes a decoded sprite-sheet image can have
ImageSizes == {<<50, 25>>, <<25, 50>>, <<5, 5>>, <<24, 10>>}
\* cell sizes a map file can declare (grid_dimensions is any pair of u32)
CellSizes == {0, 5, 10}
GridDimensions == CellSizes \X CellSizes
\* the image handles of the two sheets of a map
TileImage == "tiles.png"
WallImage == "walls.png"
ImageHandles == {TileImage, WallImage}

VARIABLES
    \* --- allocator harness -------------------------------------------
    sheet,       \* the SpriteSheet under test
    store,       \* Assets<Image> of the harness: image handle -> size | NoImage
    allocator,   \* << >>, or <<the MaterialAllocator made from sheet>>
    tmaterials,  \* Assets<UnlitMaterial> of the harness (handle = position)
    calls,       \* the calls made so far, with their outcome
    \* --- the application ----------------------------------------------
    active_map,  \* ActiveMap.map
    maps,        \* Assets<Map>: map handle -> << >> | <<Map>>
    images,      \* Assets<Image>: image handle -> size | NoImage
    asset_events,\* AssetEvent<Map> not yet read by detect_changes
    map_events,  \* MapEvent not yet read by update_map
    entities,    \* the World's entities
    next_entity, \* the next entity id the World reserves
    commands,    \* Commands queued by the systems of the running stage
    materials,   \* Assets<UnlitMaterial> (handle = position)
    panicked,    \* "" or the message of the panic that stopped the process
    phase,       \* the system the frame runs next
    tick,        \* frames completed
    load_state,  \* AssetServer: map handle -> "NotLoaded" | "Loaded" | "Failed"
    reader_keeps_unread, \* what the build's EventReader does with events
                 \* an abandoned iterator did not yield: keeps them for the
                 \* next run (TRUE) or marks them read (FALSE)
    \* --- history of the last detect_changes / update_map run ------------
    drained,     \* the notifications detect_changes found unread
    read,        \* how many of them its loop took
    processed,   \* how many MapEvents update_map handled in this frame
    emitted,     \* Created/Modified notifications emitted for active_map
    forwarded,   \* MapEvent::Update events sent so far
    notified,    \* notifications Assets<Map> emitted so far
    \* --- the camera entity (src/src/camera.rs) ---------------------------
    controls,    \* its YawPitchControls
    basis,       \* its ControllerBasis
    camera,      \* its Transform
    camera_changed \* Changed<YawPitchControls> or Changed<ControllerBasis>

hvars == <<sheet, store, allocator, tmaterials, calls>>
wvars == <<active_map, maps, images, asset_events, map_events, entities,
           next_entity, commands, materials, panicked, phase, tick,
           reader_keeps_unread>>
gvars == <<drained, read, processed, emitted, forwarded, notified>>
cvars == <<controls, basis, camera, camera_changed>>
svars == <<load_state>>
vars == <<hvars, wvars, gvars, cvars, svars>>

(***************************************************************************)
(* Fractions                                                                *)
(***************************************************************************)
FracEq(a, b) == a[1] * b[2] = b[1] * a[2]
FracAdd(a, b) == <<a[1] * b[2] + b[1] * a[2], a[2] * b[2]>>
RectEq(r, s) ==
    /\ FracEq(r.top, s.top) /\ FracEq(r.left, s.left)
    /\ FracEq(r.bottom, s.bottom) /\ FracEq(r.right, s.right)

(***************************************************************************)
(* SpriteSheet                                                              *)
(***************************************************************************)
\* SpriteSheet::dimensions: the image's size when it is decoded, else the
\* declared cell size
dimensions(s, imgs) ==
    IF imgs[s.sprite_sheet] # NoImage
        THEN imgs[s.sprite_sheet]
        ELSE s.grid_dimensions

\* SpriteSheet::material_allocator: a fresh allocator with an empty cache
material_allocator(s, imgs) ==
    [texture         |-> s.sprite_sheet,
     grid_dimensions |-> s.grid_dimensions,
     dimensions      |-> dimensions(s, imgs),
     cache           |-> << >>]

(***************************************************************************)
(* MaterialAllocator                                                        *)
(***************************************************************************)
\* the two u32 divisions and the u32 remainder of index() panic on zero
index_panics(a) ==
    \/ a.grid_dimensions[1] = 0
    \/ a.grid_dimensions[2] = 0
    \/ a.dimensions[1] \div a.grid_dimensions[1] = 0

\* the decomposition with the two coordinates exchanged: the index runs
\* down a column of width div cell_w cells first
index_column_major(a, i) ==
    LET width  == a.dimensions[1]
        height == a.dimensions[2]
        gw     == a.grid_dimensions[1]
        gh     == a.grid_dimensions[2]
        rows   == width \div gw
        x      == i \div rows
        y      == i % rows
    IN  [top    |-> <<y * gh, height>>,
         left   |-> <<x * gw, width>>,
         bottom |-> <<y * gh + gh, height>>,
         right  |-> <<x * gw + gw, width>>]

\* MaterialAllocator::index where it does not panic
index(a, i) ==
    LET width  == a.dimensions[1]
        height == a.dimensions[2]
        gw     == a.grid_dimensions[1]
        gh     == a.grid_dimensions[2]
        rows   == width \div gw
        x      == i % rows
        y      == i \div rows
    IN  [top    |-> <<y * gh, height>>,
         left   |-> <<x * gw, width>>,
         bottom |-> <<y * gh + gh, height>>,
         right  |-> <<x * gw + gw, width>>]

\* a cache that is never consulted: every call adds a material
get_material_nocache(a, i, mats) ==
    IF index_panics(a)
        THEN [panic |-> TRUE, alloc |-> a, handle |-> NoHandle,
              materials |-> mats]
        ELSE [panic     |-> FALSE,
              alloc     |-> [a EXCEPT !.cache = (i :> (Len(mats) + 1)) @@ @],
              handle    |-> Len(mats) + 1,
              materials |-> Append(mats,
                               [sprite_sheet |-> a.texture,
                                sprite       |-> index(a, i)])]

\* MaterialAllocator::get_material: the rect is computed first (and may
\* panic), then the cache entry of the index is returned or filled with a
\* material added to the store
get_material(a, i, mats) ==
    IF index_panics(a)
        THEN [panic |-> TRUE, alloc |-> a, handle |-> NoHandle,
              materials |-> mats]
        ELSE IF i \in DOMAIN a.cache
            THEN [panic |-> FALSE, alloc |-> a, handle |-> a.cache[i],
                  materials |-> mats]
            ELSE [panic     |-> FALSE,
                  alloc     |-> [a EXCEPT !.cache = (i :> (Len(mats) + 1)) @@ @],
                  handle    |-> Len(mats) + 1,
                  materials |-> Append(mats,
                                   [sprite_sheet |-> a.texture,
                                    sprite       |-> index(a, i)])]

(***************************************************************************)
(* Bounds of the application model                                          *)
(***************************************************************************)
\* frames the model runs
MaxTicks == 2
\* asset notifications unread at the start of one detect_changes run
MaxBatch == 3
\* asset notifications Assets<Map> emits in one run of the model
MaxEvents == 4

(***************************************************************************)
(* Maps                                                                     *)
(***************************************************************************)
\* the handle load_test_map stores in ActiveMap, and another map's handle
TestMap == "maps/test.map"
OtherMap == "maps/other.map"
MapHandles == {TestMap, OtherMap}
NoMapHandle == ""

\* pixel size of each sheet image once decoded
ImageSize == (TileImage :> <<50, 25>>) @@ (WallImage :> <<24, 10>>)

\* a variant of unwrap_or that takes the value after the default
unwrap_or_next(opt, d) == IF opt = << >> THEN d + 1 ELSE opt[1]

\* Option<u32> of a row's id is << >> or <<i>>
unwrap_or(opt, d) == IF opt = << >> THEN d ELSE opt[1]

MapA ==
    [name |-> "a",
     tile_sprites |-> [grid_dimensions |-> <<10, 5>>, sprite_sheet |-> TileImage],
     wall_sprites |-> [grid_dimensions |-> <<5, 5>>, sprite_sheet |-> WallImage],
     tiles |-> << [pos |-> <<0, 0>>, id |-> << >>],
                  [pos |-> <<1, 0>>, id |-> <<1>>] >>,
     walls |-> << [pos |-> <<1, 0>>, direction |-> "NegativeX", id |-> << >>] >>]

MapB ==
    [name |-> "b",
     tile_sprites |-> [grid_dimensions |-> <<10, 5>>, sprite_sheet |-> TileImage],
     wall_sprites |-> [grid_dimensions |-> <<5, 5>>, sprite_sheet |-> WallImage],
     tiles |-> << [pos |-> <<0, 1>>, id |-> <<0>>] >>,
     walls |-> << [pos |-> <<0, 1>>, direction |-> "PositiveY", id |-> <<2>>],
                  [pos |-> <<0, 1>>, direction |-> "NegativeY", id |-> <<2>>] >>]

\* what a map file can hold; the content of a map that is not the active one
\* is never read by the systems, so one content stands for it
MapContents(h) == IF h = TestMap THEN {MapA, MapB} ELSE {MapB}

(***************************************************************************)
(* MapLoader                                                                *)
(***************************************************************************)
\* the bytes of three map files: the YAML of MapA, the YAML of MapB, and
\* bytes that are not the YAML of a MapFile
YamlA == "name: a"
YamlB == "name: b"
YamlBroken == "name: ["
Yaml(m) == IF m = MapA THEN YamlA ELSE YamlB

\* serde_yaml::from_slice::<MapFile>: << >> is Err, <<f>> is Ok(f); a
\* MapFile has the fields of a Map with paths for the sheets' handles
from_slice(bytes) ==
    CASE bytes = YamlA -> <<MapA>>
      [] bytes = YamlB -> <<MapB>>
      [] OTHER -> << >>

\* load_context.get_handle(path): a handle is known by its path
get_handle(path) == path

\* a variant of load that sets an empty default asset before it parses
load_asset_first(bytes) ==
    IF from_slice(bytes) = << >>
        THEN [result |-> "Err",
              asset  |-> <<[value |->
                               [name |-> "",
                                tile_sprites |->
                                    [grid_dimensions |-> <<1, 1>>,
                                     sprite_sheet |-> TileImage],
                                wall_sprites |->
                                    [grid_dimensions |-> <<1, 1>>,
                                     sprite_sheet |-> WallImage],
                                tiles |-> << >>, walls |-> << >>],
                            dependencies |-> {}]>>]
        ELSE [result |-> "Ok",
              asset  |-> <<[value |-> from_slice(bytes)[1],
                            dependencies |-> {}]>>]

\* MapLoader::load: result is what the future returns, asset is << >> or
\* <<the LoadedAsset given to set_default_asset>>
load(bytes) ==
    LET parsed == from_slice(bytes)
    IN  IF parsed = << >>
            THEN [result |-> "Err", asset |-> << >>]
            ELSE
        LET map_file     == parsed[1]
            tile_sprites ==
                [sprite_sheet |-> get_handle(map_file.tile_sprites.sprite_sheet),
                 grid_dimensions |-> map_file.tile_sprites.grid_dimensions]
            wall_sprites ==
                [sprite_sheet |-> get_handle(map_file.wall_sprites.sprite_sheet),
                 grid_dimensions |-> map_file.wall_sprites.grid_dimensions]
            map == [name |-> map_file.name,
                    tile_sprites |-> tile_sprites,
                    wall_sprites |-> wall_sprites,
                    tiles |-> map_file.tiles,
                    walls |-> map_file.walls]
        IN  [result |-> "Ok",
             asset  |-> <<[value |-> map,
                           dependencies |->
                               {map_file.tile_sprites.sprite_sheet,
                                map_file.wall_sprites.sprite_sheet}]>>]

(***************************************************************************)
(* Grid placement (src/src/map/mod.rs)                                      *)
(***************************************************************************)
\* TILE_SIZE = 0.2, in tenths of a world unit
TILE_SIZE == 2

\* impl From<Location> for Vec3, in tenths of a world unit
to_translation(l) == <<l[1] * TILE_SIZE, 0, l[2] * TILE_SIZE>>

\* enum Direction
Directions == {"PositiveX", "NegativeY", "NegativeX", "PositiveY"}

\* a variant of the mapping with the angles of the two Y directions exchanged
to_rotation_mirrored(dir) ==
    CASE dir = "PositiveX" -> 0
      [] dir = "NegativeY" -> 270
      [] dir = "NegativeX" -> 180
      [] dir = "PositiveY" -> 90

\* impl From<Direction> for Quat: degrees about Vec3::Y
to_rotation(dir) ==
    CASE dir = "PositiveX" -> 0
      [] dir = "NegativeY" -> 90
      [] dir = "NegativeX" -> 180
      [] dir = "PositiveY" -> 270

NoDirection == "none"

\* Transform::default() on the scene root
RootEntity(id) ==
    [id |-> id, kind |-> "root", parent |-> 0, map |-> NoMapHandle,
     location |-> <<0, 0>>, direction |-> NoDirection, material |-> NoHandle,
     translation |-> <<0, 0, 0>>, rotation |-> 0,
     changed_location |-> FALSE, changed_direction |-> FALSE]

\* TileBundle::new
TileBundle(id, grid_pos, material) ==
    [id |-> id, kind |-> "tile", parent |-> 0, map |-> NoMapHandle,
     location |-> grid_pos, direction |-> NoDirection, material |-> material,
     translation |-> to_translation(grid_pos), rotation |-> 0,
     changed_location |-> TRUE, changed_direction |-> FALSE]

\* WallBundle::new: the transform is from_translation only
WallBundle(id, location, direction, material) ==
    [id |-> id, kind |-> "wall", parent |-> 0, map |-> NoMapHandle,
     location |-> location, direction |-> direction, material |-> material,
     translation |-> to_translation(location), rotation |-> 0,
     changed_location |-> TRUE, changed_direction |-> TRUE]

\* main.rs test_map: five tiles and four walls with the blank material,
\* spawned at startup outside any scene root
StartupEntities ==
    { TileBundle(1, <<0, 0>>, 1), TileBundle(2, <<1, 0>>, 1),
      TileBundle(3, <<0, 1>>, 1), TileBundle(4, <<0, -1>>, 1),
      TileBundle(5, <<-1, 0>>, 1),
      WallBundle(6, <<-1, 0>>, "NegativeX", 1),
      WallBundle(7, <<1, 0>>, "PositiveX", 1),
      WallBundle(8, <<0, 1>>, "PositiveY", 1),
      WallBundle(9, <<0, -1>>, "NegativeY", 1) }
StartupIds == {e.id : e \in StartupEntities}

\* UnlitMaterial::default() added by test_map
BlankMaterial == [sprite_sheet |-> "", sprite |-> NoRect]

(***************************************************************************)
(* detect_changes                                                           *)
(***************************************************************************)
\* the loop of detect_changes from the k-th unread notification on: the
\* result is how many notifications the loop took, the MapEvents it sent
\* and the panic it ended with
RECURSIVE detect_loop(_, _, _, _)
detect_loop(active, events, k, sent) ==
    IF k > Len(events)
        THEN [read |-> Len(events), sent |-> sent, panic |-> ""]
        ELSE LET event == events[k]
             IN  IF event.kind = "Removed"
                     THEN IF event.handle = active
                              THEN [read |-> k, sent |-> sent,
                                    panic |-> "Unloaded active map"]
                              ELSE [read |-> k, sent |-> sent, panic |-> ""]
                     ELSE detect_loop(active, events, k + 1,
                              IF event.handle = active
                                  THEN Append(sent, [handle |-> event.handle])
                                  ELSE sent)

\* the removal of the active map returns like any other removal
RECURSIVE detect_loop_nopanic(_, _, _, _)
detect_loop_nopanic(active, events, k, sent) ==
    IF k > Len(events)
        THEN [read |-> Len(events), sent |-> sent, panic |-> ""]
        ELSE LET event == events[k]
             IN  IF event.kind = "Removed"
                     THEN [read |-> k, sent |-> sent, panic |-> ""]
                     ELSE detect_loop_nopanic(active, events, k + 1,
                              IF event.handle = active
                                  THEN Append(sent, [handle |-> event.handle])
                                  ELSE sent)

detect_changes_nopanic(active, events) ==
    detect_loop_nopanic(active, events, 1, << >>)

detect_changes(active, events) == detect_loop(active, events, 1, << >>)

(***************************************************************************)
(* update_map                                                               *)
(***************************************************************************)
\* Query<Entity, With<Handle<Map>>>
map_query(world) == {e \in world : e.map # NoMapHandle}

\* the tile loop of the with_children closure from the k-th tile on; st is
\* [alloc, materials, next_entity, commands, children, panic]
RECURSIVE spawn_tiles(_, _, _)
spawn_tiles(tiles, k, st) ==
    IF k > Len(tiles) \/ st.panic # ""
        THEN st
        ELSE LET tile == tiles[k]
                 r    == get_material(st.alloc, unwrap_or(tile.id, 0), st.materials)
             IN  IF r.panic
                     THEN [st EXCEPT !.panic = "attempt to divide by zero"]
                     ELSE spawn_tiles(tiles, k + 1,
                              [st EXCEPT
                                  !.alloc = r.alloc,
                                  !.materials = r.materials,
                                  !.next_entity = @ + 1,
                                  !.commands = Append(@,
                                      [op |-> "spawn_bundle",
                                       bundle |-> TileBundle(st.next_entity,
                                                      tile.pos, r.handle)]),
                                  !.children = Append(@, st.next_entity)])

\* the wall loop of the with_children closure
RECURSIVE spawn_walls(_, _, _)
spawn_walls(walls, k, st) ==
    IF k > Len(walls) \/ st.panic # ""
        THEN st
        ELSE LET wall == walls[k]
                 r    == get_material(st.alloc, unwrap_or(wall.id, 0), st.materials)
             IN  IF r.panic
                     THEN [st EXCEPT !.panic = "attempt to divide by zero"]
                     ELSE spawn_walls(walls, k + 1,
                              [st EXCEPT
                                  !.alloc = r.alloc,
                                  !.materials = r.materials,
                                  !.next_entity = @ + 1,
                                  !.commands = Append(@,
                                      [op |-> "spawn_bundle",
                                       bundle |-> WallBundle(st.next_entity,
                                                      wall.pos, wall.direction,
                                                      r.handle)]),
                                  !.children = Append(@, st.next_entity)])

\* the body of update_map's loop for one MapEvent::Update{handle}; w is
\* [next_entity, commands, materials, panic], world the entities the query
\* sees (commands are not applied before the stage ends)
rebuild(handle, world, assets, imgs, w) ==
    IF assets[handle] = << >>
        THEN [w EXCEPT !.panic = "Map was created but is not in assets"]
        ELSE
    LET map    == assets[handle][1]
        found  == map_query(world)
        single == Cardinality(found) = 1
        entity == IF single THEN (CHOOSE e \in found : TRUE).id
                            ELSE w.next_entity
        cmds0  == IF single THEN w.commands
                  ELSE Append(w.commands, [op |-> "spawn", entity |-> entity])
        next0  == IF single THEN w.next_entity ELSE w.next_entity + 1
        cmds1  == cmds0 \o << [op |-> "despawn_descendants", entity |-> entity],
                              [op |-> "insert", entity |-> entity,
                               handle |-> handle] >>
        t      == spawn_tiles(map.tiles, 1,
                      [alloc |-> material_allocator(map.tile_sprites, imgs),
                       materials |-> w.materials, next_entity |-> next0,
                       commands |-> cmds1, children |-> << >>, panic |-> ""])
        u      == spawn_walls(map.walls, 1,
                      [t EXCEPT !.alloc = material_allocator(map.wall_sprites, imgs)])
    IN  [next_entity |-> u.next_entity,
         commands    |-> IF u.panic # "" THEN u.commands
                         ELSE Append(u.commands,
                                  [op |-> "push_children", entity |-> entity,
                                   children |-> u.children]),
         materials   |-> u.materials,
         panic       |-> u.panic]

\* for event in map_events.iter(), from the k-th event on
RECURSIVE update_loop(_, _, _, _, _, _)
update_loop(events, k, world, assets, imgs, w) ==
    IF k > Len(events) \/ w.panic # ""
        THEN w
        ELSE update_loop(events, k + 1, world, assets, imgs,
                 rebuild(events[k].handle, world, assets, imgs, w))

update_map(events, world, assets, imgs, w) ==
    update_loop(events, 1, world, assets, imgs, w)

(***************************************************************************)
(* Commands applied at the end of the stage                                 *)
(***************************************************************************)
\* a variant of apply_command whose despawn_descendants keeps the children
apply_command_keep(world, c) ==
    CASE c.op = "spawn" ->
            world \cup {RootEntity(c.entity)}
      [] c.op = "despawn_descendants" ->
            world
      [] c.op = "insert" ->
            {IF e.id = c.entity THEN [e EXCEPT !.map = c.handle] ELSE e :
                e \in world}
      [] c.op = "spawn_bundle" ->
            world \cup {c.bundle}
      [] c.op = "push_children" ->
            {IF e.id \in {c.children[k] : k \in 1..Len(c.children)}
                 THEN [e EXCEPT !.parent = c.entity] ELSE e :
                e \in world}

apply_command(world, c) ==
    CASE c.op = "spawn" ->
            world \cup {RootEntity(c.entity)}
      [] c.op = "despawn_descendants" ->
            {e \in world : e.parent # c.entity}
      [] c.op = "insert" ->
            {IF e.id = c.entity THEN [e EXCEPT !.map = c.handle] ELSE e :
                e \in world}
      [] c.op = "spawn_bundle" ->
            world \cup {c.bundle}
      [] c.op = "push_children" ->
            {IF e.id \in {c.children[k] : k \in 1..Len(c.children)}
                 THEN [e EXCEPT !.parent = c.entity] ELSE e :
                e \in world}

RECURSIVE apply_commands(_, _, _)
apply_commands(world, cmds, k) ==
    IF k > Len(cmds)
        THEN world
        ELSE apply_commands(apply_command(world, cmds[k]), cmds, k + 1)

(***************************************************************************)
(* The camera controls (src/src/camera.rs)                                  *)
(* f32 values are fixed-point numbers with three decimals, angles are       *)
(* multiples of 45 degrees                                                  *)
(***************************************************************************)
\* the fixed-point value of 1.0
Scale == 1000

\* cosine and sine of a multiple of 45 degrees (0.7071 rounded to 0.707)
Cos(deg) ==
    LET a == deg % 360
    IN  CASE a = 0 -> Scale
          [] a \in {45, 315} -> 707
          [] a \in {90, 270} -> 0
          [] a \in {135, 225} -> -707
          [] a = 180 -> -Scale
Sin(deg) == Cos(deg + 270)

\* Vec3
VAdd(a, b) == <<a[1] + b[1], a[2] + b[2], a[3] + b[3]>>
VSub(a, b) == <<a[1] - b[1], a[2] - b[2], a[3] - b[3]>>
VMul(a, s) == <<(a[1] * s) \div Scale, (a[2] * s) \div Scale,
                (a[3] * s) \div Scale>>
Dot(a, b) == (a[1] * b[1] + a[2] * b[2] + a[3] * b[3]) \div Scale
Cross(a, b) ==
    <<(a[2] * b[3] - a[3] * b[2]) \div Scale,
      (a[3] * b[1] - a[1] * b[3]) \div Scale,
      (a[1] * b[2] - a[2] * b[1]) \div Scale>>

\* integer square root (Newton's iteration from above)
RECURSIVE isqrt_from(_, _)
isqrt_from(n, x) ==
    LET y == (x + n \div x) \div 2
    IN  IF y >= x THEN x ELSE isqrt_from(n, y)
isqrt(n) == IF n = 0 THEN 0 ELSE isqrt_from(n, n)

\* Vec3::normalize of a vector that is not zero
normalize(v) ==
    LET len == isqrt(v[1] * v[1] + v[2] * v[2] + v[3] * v[3])
    IN  <<(v[1] * Scale) \div len, (v[2] * Scale) \div len,
          (v[3] * Scale) \div len>>

\* Quat::from_axis_angle; a Quat is the sequence of the axis-angle rotations
\* it is the product of
from_axis_angle(axis, deg) == <<[axis |-> axis, deg |-> deg]>>

\* the rotation of v about a unit axis (Rodrigues' formula)
rotate(r, v) ==
    VAdd(VAdd(VMul(v, Cos(r.deg)), VMul(Cross(r.axis, v), Sin(r.deg))),
         VMul(r.axis, (Dot(r.axis, v) * (Scale - Cos(r.deg))) \div Scale))

\* Quat * Vec3: the rightmost factor acts first
RECURSIVE quat_mul_vec(_, _)
quat_mul_vec(q, v) ==
    IF q = << >> THEN v
    ELSE rotate(Head(q), quat_mul_vec(Tail(q), v))

\* YawPitchControls::yaw
yaw(c, b) == from_axis_angle(b.up, c.yaw)

\* a variant of rotator with the product the other way round
rotator_pitch_last(c, b) ==
    LET pitch_axis == normalize(Cross(b.up, b.forward))
        pitch      == from_axis_angle(pitch_axis, 360 - c.pitch)
    IN  pitch \o yaw(c, b)

\* YawPitchControls::rotator: self.yaw(basis) * pitch
rotator(c, b) ==
    LET pitch_axis == normalize(Cross(b.up, b.forward))
        pitch      == from_axis_angle(pitch_axis, 360 - c.pitch)
    IN  yaw(c, b) \o pitch

\* YawPitchControls::local_basis
local_basis(c, b) ==
    LET orientation == rotator(c, b)
    IN  [up      |-> quat_mul_vec(orientation, b.up),
         forward |-> quat_mul_vec(orientation, b.forward)]

\* Transform::looking_at keeps the translation and turns the local +Z axis
\* (the back of a camera, which looks along -Z) to normalize(translation -
\* target); the Transform is kept as its translation and that axis
looking_at(translation, target) ==
    [translation |-> translation,
     back        |-> normalize(VSub(translation, target))]

\* YawPitchControls::transform
transform(c, b) ==
    LET local == local_basis(c, b)
    IN  looking_at(VAdd(c.focus, VMul(local.forward, c.dist)), c.focus)

\* impl Default for ControllerBasis, impl Default for YawPitchControls
DefaultBasis == [up |-> <<0, Scale, 0>>, forward |-> <<0, 0, Scale>>]
DefaultControls ==
    [focus |-> <<0, 0, 0>>, pitch |-> 45, yaw |-> 45, dist |-> Scale]

\* setup_camera: the bundle of OrthographicCameraBundle::new_3d() with the
\* default basis and controls, its components newly added
CameraStartup ==
    /\ controls = DefaultControls
    /\ basis = DefaultBasis
    /\ camera = [translation |-> <<0, 0, 0>>, back |-> <<0, 0, Scale>>]
    /\ camera_changed = TRUE

(***************************************************************************)
(* The application: one frame is assets -> detect_changes -> update_map ->  *)
(* location_controller -> direction_controller -> commands applied          *)
(***************************************************************************)
Running == panicked = ""

WorldInit(keeps) ==
    /\ active_map = TestMap
    /\ maps = [h \in MapHandles |-> << >>]
    /\ load_state = [h \in MapHandles |-> "NotLoaded"]
    /\ images = [i \in ImageHandles |-> NoImage]
    /\ asset_events = << >>
    /\ map_events = << >>
    /\ entities = StartupEntities
    /\ next_entity = Cardinality(StartupEntities) + 1
    /\ commands = << >>
    /\ materials = <<BlankMaterial>>
    /\ panicked = ""
    /\ phase = "assets"
    /\ tick = 0
    /\ reader_keeps_unread = keeps
    /\ drained = << >>
    /\ read = 0
    /\ processed = 0
    /\ emitted = 0
    /\ forwarded = 0
    /\ notified = 0

HarnessIdle ==
    /\ sheet = [grid_dimensions |-> <<0, 0>>, sprite_sheet |-> TileImage]
    /\ store = [i \in ImageHandles |-> NoImage]
    /\ allocator = << >>
    /\ tmaterials = << >>
    /\ calls = << >>

Init ==
    /\ \E keeps \in BOOLEAN : WorldInit(keeps)
    /\ HarnessIdle
    /\ CameraStartup

Emit(kind, h) ==
    /\ asset_events' = Append(asset_events, [kind |-> kind, handle |-> h])
    /\ emitted' = IF kind # "Removed" /\ h = active_map
                      THEN emitted + 1 ELSE emitted
    /\ notified' = notified + 1

\* the asset server ran MapLoader::load for a handle that has no asset: a
\* set asset is stored and notified as Created, an Err is a failed load
LoadMap(h, bytes) ==
    /\ Running /\ phase = "assets" /\ tick < MaxTicks
    /\ maps[h] = << >>
    /\ LET r == load(bytes)
       IN  /\ load_state' = [load_state EXCEPT
                                ![h] = IF r.result = "Ok" THEN "Loaded"
                                                          ELSE "Failed"]
           /\ IF r.asset # << >>
                  THEN /\ Len(asset_events) < MaxBatch
                       /\ notified < MaxEvents
                       /\ maps' = [maps EXCEPT ![h] = <<r.asset[1].value>>]
                       /\ Emit("Created", h)
                  ELSE /\ load_state[h] # "Failed"
                       /\ UNCHANGED <<maps, asset_events, emitted, notified>>
    /\ UNCHANGED <<active_map, images, map_events, entities, next_entity,
                   commands, materials, panicked, phase, tick,
                   reader_keeps_unread, drained, read, processed, forwarded,
                   hvars, cvars>>

\* the watched file changed and the asset server ran MapLoader::load again
ReloadMap(h, bytes) ==
    /\ Running /\ phase = "assets" /\ tick < MaxTicks
    /\ maps[h] # << >>
    /\ LET r == load(bytes)
       IN  /\ load_state' = [load_state EXCEPT
                                ![h] = IF r.result = "Ok" THEN "Loaded"
                                                          ELSE "Failed"]
           /\ IF r.asset # << >>
                  THEN /\ Len(asset_events) < MaxBatch
                       /\ notified < MaxEvents
                       /\ maps' = [maps EXCEPT ![h] = <<r.asset[1].value>>]
                       /\ Emit("Modified", h)
                  ELSE /\ load_state[h] # "Failed"
                       /\ UNCHANGED <<maps, asset_events, emitted, notified>>
    /\ UNCHANGED <<active_map, images, map_events, entities, next_entity,
                   commands, materials, panicked, phase, tick,
                   reader_keeps_unread, drained, read, processed, forwarded,
                   hvars, cvars>>

\* the asset of a handle left Assets<Map>
RemoveMap(h) ==
    /\ Running /\ phase = "assets" /\ tick < MaxTicks
    /\ Len(asset_events) < MaxBatch /\ notified < MaxEvents
    /\ maps[h] # << >>
    /\ maps' = [maps EXCEPT ![h] = << >>]
    /\ load_state' = [load_state EXCEPT ![h] = "NotLoaded"]
    /\ Emit("Removed", h)
    /\ UNCHANGED <<active_map, images, map_events, entities, next_entity,
                   commands, materials, panicked, phase, tick,
                   reader_keeps_unread, drained, read, processed, forwarded,
                   hvars, cvars>>

\* a sheet image a loaded map depends on finished decoding
DecodeImage(i) ==
    /\ Running /\ phase = "assets" /\ tick < MaxTicks
    /\ images[i] = NoImage
    /\ \E h \in MapHandles : maps[h] # << >>
    /\ images' = [images EXCEPT ![i] = ImageSize[i]]
    /\ UNCHANGED <<active_map, maps, asset_events, map_events, entities,
                   next_entity, commands, materials, panicked, phase, tick,
                   reader_keeps_unread, gvars, hvars, cvars, svars>>

\* the asset stage is over; the update stage starts with detect_changes
RunSystems ==
    /\ Running /\ phase = "assets" /\ tick < MaxTicks
    /\ phase' = "detect_changes"
    /\ UNCHANGED <<active_map, maps, images, asset_events, map_events,
                   entities, next_entity, commands, materials, panicked, tick,
                   reader_keeps_unread, gvars, hvars, cvars, svars>>

\* detect_changes runs once per frame over the notifications its reader has
\* not read.  Its `return` abandons the iterator: what the iterator did not
\* yield is marked read or kept for the next frame, depending on the build
\* (reader_keeps_unread).  A kept notification is read one frame later at
\* the latest while MaxBatch <= 3, before the event buffer would drop it.
DetectChanges ==
    /\ Running /\ phase = "detect_changes"
    /\ LET r == detect_changes(active_map, asset_events)
       IN  /\ drained' = asset_events
           /\ read' = r.read
           /\ map_events' = map_events \o r.sent
           /\ forwarded' = forwarded + Len(r.sent)
           /\ panicked' = r.panic
           /\ asset_events' =
                  IF reader_keeps_unread
                      THEN SubSeq(asset_events, r.read + 1, Len(asset_events))
                      ELSE << >>
    /\ phase' = "update_map"
    /\ UNCHANGED <<active_map, maps, images, entities, next_entity, commands,
                   materials, tick, reader_keeps_unread, processed, emitted,
                   notified, hvars, cvars, svars>>

UpdateMap ==
    /\ Running /\ phase = "update_map"
    /\ LET w == update_map(map_events, entities, maps, images,
                    [next_entity |-> next_entity, commands |-> commands,
                     materials |-> materials, panic |-> ""])
       IN  /\ next_entity' = w.next_entity
           /\ commands' = w.commands
           /\ materials' = w.materials
           /\ panicked' = w.panic
    /\ processed' = Len(map_events)
    /\ map_events' = << >>
    /\ phase' = "location_controller"
    /\ UNCHANGED <<active_map, maps, images, asset_events, entities, tick,
                   reader_keeps_unread, drained, read, emitted, forwarded,
                   notified, hvars, cvars, svars>>

\* a variant of location_controller without the Changed<Location> filter
LocationControllerUnfiltered ==
    /\ Running /\ phase = "location_controller"
    /\ entities' =
           {IF e.kind # "root"
                THEN [e EXCEPT !.translation = to_translation(e.location),
                               !.changed_location = FALSE]
                ELSE e : e \in entities}
    /\ phase' = "direction_controller"
    /\ UNCHANGED <<active_map, maps, images, asset_events, map_events,
                   next_entity, commands, materials, panicked, tick,
                   reader_keeps_unread, gvars, hvars, cvars, svars>>

\* location_controller: Query<(&Location, &mut Transform), Changed<Location>>
LocationController ==
    /\ Running /\ phase = "location_controller"
    /\ entities' =
           {IF e.kind # "root" /\ e.changed_location
                THEN [e EXCEPT !.translation = to_translation(e.location),
                               !.changed_location = FALSE]
                ELSE e : e \in entities}
    /\ phase' = "direction_controller"
    /\ UNCHANGED <<active_map, maps, images, asset_events, map_events,
                   next_entity, commands, materials, panicked, tick,
                   reader_keeps_unread, gvars, hvars, cvars, svars>>

\* direction_controller: Query<(&Direction, &mut Transform), Changed<Direction>>
DirectionController ==
    /\ Running /\ phase = "direction_controller"
    /\ entities' =
           {IF e.kind = "wall" /\ e.changed_direction
                THEN [e EXCEPT !.rotation = to_rotation(e.direction),
                               !.changed_direction = FALSE]
                ELSE e : e \in entities}
    /\ phase' = "apply"
    /\ UNCHANGED <<active_map, maps, images, asset_events, map_events,
                   next_entity, commands, materials, panicked, tick,
                   reader_keeps_unread, gvars, hvars, cvars, svars>>

\* the stage ends: the queued commands are applied in order
ApplyCommands ==
    /\ Running /\ phase = "apply"
    /\ entities' = apply_commands(entities, commands, 1)
    /\ commands' = << >>
    /\ phase' = "frame_end"
    /\ UNCHANGED <<active_map, maps, images, asset_events, map_events,
                   next_entity, materials, panicked, tick,
                   reader_keeps_unread, gvars, hvars, cvars, svars>>

\* the next frame begins
NextFrame ==
    /\ Running /\ phase = "frame_end"
    /\ tick' = tick + 1
    /\ phase' = "assets"
    /\ UNCHANGED <<active_map, maps, images, asset_events, map_events,
                   entities, next_entity, commands, materials, panicked,
                   reader_keeps_unread, gvars, hvars, cvars, svars>>

Next ==
    \/ \E h \in MapHandles : \E m \in MapContents(h) : LoadMap(h, Yaml(m))
    \/ \E h \in MapHandles : \E m \in MapContents(h) : ReloadMap(h, Yaml(m))
    \/ \E h \in MapHandles : RemoveMap(h)
    \/ \E i \in ImageHandles : DecodeImage(i)
    \/ RunSystems
    \/ DetectChanges
    \/ UpdateMap
    \/ LocationController
    \/ DirectionController
    \/ ApplyCommands
    \/ NextFrame

Spec == Init /\ [][Next]_vars

(***************************************************************************)
(* Allocator harness: one sheet, one allocator, a few calls                 *)
(***************************************************************************)
HarnessInit ==
    /\ sheet \in [grid_dimensions : GridDimensions, sprite_sheet : {TileImage}]
    /\ store \in [ImageHandles -> ImageSizes \cup {NoImage}]
    /\ store[WallImage] = NoImage
    /\ allocator = << >>
    /\ tmaterials = << >>
    /\ calls = << >>
    /\ WorldInit(FALSE)
    /\ CameraStartup

NoCallPanicked == \A k \in 1..Len(calls) : ~calls[k].panic

\* let mut a = sheet.material_allocator(&images)
MakeAllocator ==
    /\ allocator = << >>
    /\ allocator' = <<material_allocator(sheet, store)>>
    /\ UNCHANGED <<sheet, store, tmaterials, calls, wvars, gvars, cvars, svars>>

\* a.index(i)
CallIndex(i) ==
    /\ allocator # << >>
    /\ Len(calls) < MaxCalls
    /\ NoCallPanicked
    /\ calls' = Append(calls,
           IF index_panics(allocator[1])
               THEN [op |-> "index", index |-> i, panic |-> TRUE,
                     handle |-> NoHandle, rect |-> NoRect, added |-> 0]
               ELSE [op |-> "index", index |-> i, panic |-> FALSE,
                     handle |-> NoHandle, rect |-> index(allocator[1], i),
                     added |-> 0])
    /\ UNCHANGED <<sheet, store, allocator, tmaterials, wvars, gvars, cvars, svars>>

\* a.get_material(i, &mut materials)
CallGetMaterial(i) ==
    /\ allocator # << >>
    /\ Len(calls) < MaxCalls
    /\ NoCallPanicked
    /\ LET r == get_material(allocator[1], i, tmaterials)
       IN  /\ allocator' = <<r.alloc>>
           /\ tmaterials' = r.materials
           /\ calls' = Append(calls,
                  [op |-> "get_material", index |-> i, panic |-> r.panic,
                   handle |-> r.handle,
                   rect |-> IF r.panic THEN NoRect
                            ELSE r.materials[r.handle].sprite,
                   added |-> Len(r.materials) - Len(tmaterials)])
    /\ UNCHANGED <<sheet, store, wvars, gvars, cvars, svars>>

HarnessNext ==
    \/ MakeAllocator
    \/ \E i \in 0..MaxIndex : CallIndex(i)
    \/ \E i \in 0..MaxIndex : CallGetMaterial(i)

AllocSpec == HarnessInit /\ [][HarnessNext]_vars

(***************************************************************************)
(* Allocator claims, checked under AllocSpec                                *)
(***************************************************************************)
Returned == {k \in 1..Len(calls) : ~calls[k].panic}
GetCalls == {k \in 1..Len(calls) : calls[k].op = "get_material" /\ ~calls[k].panic}
TheAllocator == allocator[1]
CellW == TheAllocator.grid_dimensions[1]
CellH == TheAllocator.grid_dimensions[2]
Width == TheAllocator.dimensions[1]
Height == TheAllocator.dimensions[2]

\* C7: the rect returned for an index is left = column*cell_w/width,
\* top = row*cell_h/height, right = left + cell_w/width, bottom = top +
\* cell_h/height with rows = width div cell_w, column = index mod rows,
\* row = index div rows; on a 50x25 texture with 10x5 cells index 0 gives
\* {0, 0, 0.2, 0.2} and index 5 gives {left 0, top 0.2, right 0.2, bottom 0.4}
C7_IndexRect ==
    \A k \in Returned :
        LET i      == calls[k].index
            r      == calls[k].rect
            rows   == Width \div CellW
            column == i % rows
            row    == i \div rows
        IN  /\ FracEq(r.left, <<column * CellW, Width>>)
            /\ FracEq(r.top, <<row * CellH, Height>>)
            /\ FracEq(r.right, FracAdd(r.left, <<CellW, Width>>))
            /\ FracEq(r.bottom, FracAdd(r.top, <<CellH, Height>>))
            /\ (TheAllocator.dimensions = <<50, 25>>
                    /\ TheAllocator.grid_dimensions = <<10, 5>> /\ i = 0
                => RectEq(r, [left |-> <<0, 1>>, top |-> <<0, 1>>,
                              right |-> <<2, 10>>, bottom |-> <<2, 10>>]))
            /\ (TheAllocator.dimensions = <<50, 25>>
                    /\ TheAllocator.grid_dimensions = <<10, 5>> /\ i = 5
                => RectEq(r, [left |-> <<0, 1>>, top |-> <<2, 10>>,
                              right |-> <<2, 10>>, bottom |-> <<4, 10>>]))

C7_Witness ==
    /\ allocator # << >>
    /\ store[TileImage] = <<50, 25>>
    /\ sheet.grid_dimensions = <<10, 5>>
    /\ Len(calls) = 2
    /\ calls[1].op = "index" /\ calls[1].index = 0 /\ ~calls[1].panic
    /\ calls[2].op = "get_material" /\ calls[2].index = 5 /\ ~calls[2].panic

\* the pairs of returned calls whose indices are i and i + 1
Consecutive ==
    {p \in Returned \X Returned : calls[p[2]].index = calls[p[1]].index + 1}

\* C8 as stated: indices fill down columns first; from i to i + 1 inside a
\* decoded sheet the left edge stays and the top edge moves down one cell
\* height, until the column is full, then the next index is at the top of
\* the next column to the right
C8_ColumnMajor ==
    \A p \in Consecutive :
        LET c == calls[p[1]].rect
            d == calls[p[2]].rect
            cells == (Width \div CellW) * (Height \div CellH)
        IN  (/\ store[TileImage] # NoImage
             /\ Width % CellW = 0 /\ Height % CellH = 0
             /\ calls[p[2]].index < cells) =>
                IF ~FracEq(c.bottom, <<1, 1>>)
                    THEN /\ FracEq(d.left, c.left)
                         /\ FracEq(d.top, FracAdd(c.top, <<CellH, Height>>))
                    ELSE /\ FracEq(d.top, <<0, 1>>)
                         /\ FracEq(d.left, FracAdd(c.left, <<CellW, Width>>))

\* C8 amended: indices fill along rows first; from i to i + 1 the top edge
\* stays and the left edge moves right one cell width, until width div
\* cell_w cells are placed, then the next index is at the left of the next
\* row down
C8_RowMajor ==
    \A p \in Consecutive :
        LET c == calls[p[1]].rect
            d == calls[p[2]].rect
            perRow == Width \div CellW
        IN  IF calls[p[2]].index % perRow # 0
                THEN /\ FracEq(d.top, c.top)
                     /\ FracEq(d.left, FracAdd(c.left, <<CellW, Width>>))
                ELSE /\ FracEq(d.left, <<0, 1>>)
                     /\ FracEq(d.top, FracAdd(c.top, <<CellH, Height>>))

C8_Witness ==
    /\ allocator # << >>
    /\ store[TileImage] = <<50, 25>>
    /\ sheet.grid_dimensions = <<10, 5>>
    /\ Len(calls) = 2
    /\ calls[1].index = 4 /\ ~calls[1].panic
    /\ calls[2].index = 5 /\ ~calls[2].panic

\* C9: for one allocator, get_material calls with the same index return the
\* same handle and add one material to the store for that index in all;
\* calls with different indices return different handles
C9_CacheByIndex ==
    /\ \A k, l \in GetCalls :
           (calls[k].index = calls[l].index) = (calls[k].handle = calls[l].handle)
    /\ \A k \in GetCalls :
           Cardinality({l \in GetCalls : calls[l].index = calls[k].index
                                          /\ calls[l].added = 1}) = 1
    /\ \A k \in GetCalls : calls[k].added \in {0, 1}
    /\ Len(tmaterials) = Cardinality({calls[k].index : k \in GetCalls})

C9_Witness ==
    /\ Len(calls) = 2
    /\ GetCalls = {1, 2}
    /\ calls[1].index = calls[2].index
    /\ Len(tmaterials) = 1

\* C10: no index / get_material call fails, whatever the sheet's cell size,
\* the texture's pixel size (or its absence) and the index
C10_AllocatorNeverFails ==
    \A k \in 1..Len(calls) : ~calls[k].panic

(***************************************************************************)
(* Synchronizer claims, checked under Spec                                  *)
(***************************************************************************)
RemovedActive == [kind |-> "Removed", handle |-> active_map]
IsForActive(e) == e.kind # "Removed" /\ e.handle = active_map
IsNotOtherRemoval(e) == ~(e.kind = "Removed" /\ e.handle # active_map)
\* the MapEvents owed to the first n notifications of a batch
UpdatesFor(events, n) ==
    [k \in 1..Len(SelectSeq(SubSeq(events, 1, n), IsForActive)) |->
        [handle |-> active_map]]

\* C1: when the loop of detect_changes takes a Removed notification of the
\* active map, the process panics with "Unloaded active map": that
\* notification is the last one taken, and the rebuilds enqueued are those
\* of the notifications before it
C1_ActiveRemovalIsFatal ==
    \A k \in 1..read :
        drained[k] = RemovedActive =>
            /\ panicked = "Unloaded active map"
            /\ read = k
            /\ map_events = UpdatesFor(drained, k - 1)
            /\ commands = << >>

C1_Witness ==
    /\ panicked = "Unloaded active map"
    /\ read = 2
    /\ drained[1] = [kind |-> "Modified", handle |-> active_map]
    /\ drained[2] = RemovedActive
    /\ Len(map_events) = 1

\* C2: the rebuilds detect_changes enqueues for a batch are those it
\* enqueues for the batch without its Removed notifications of other maps
C2_OtherRemovalIsNoOp ==
    phase = "update_map" =>
        map_events =
            detect_changes(active_map, SelectSeq(drained, IsNotOtherRemoval)).sent

\* C3: at most one scene root exists
SceneRoots == {e \in entities : e.kind = "root"}
C3_AtMostOneSceneRoot == Cardinality(SceneRoots) <= 1

\* the (kind, grid location, direction-or-none) of an entity and of the
\* rows of a map
RowOf(e) == <<e.kind, e.location, e.direction>>
MapRows(map) ==
    [k \in 1..Len(map.tiles) |->
        <<"tile", map.tiles[k].pos, NoDirection>>]
    \o [k \in 1..Len(map.walls) |->
        <<"wall", map.walls[k].pos, map.walls[k].direction>>]
\* one entity of S per row of the map and nothing else
Mirrors(S, map) ==
    LET rows == MapRows(map)
    IN  \A t \in {RowOf(e) : e \in S} \cup {rows[k] : k \in 1..Len(rows)} :
            Cardinality({e \in S : RowOf(e) = t})
                = Cardinality({k \in 1..Len(rows) : rows[k] = t})
ChildrenOf(r) == {e \in entities : e.parent = r.id}
\* the tile and wall entities update_map spawned
Synchronized ==
    {e \in entities : e.kind # "root" /\ e.id \notin StartupIds}

\* C4: once the commands of a frame with a rebuild are applied, the
\* children of the scene root are one tile per MapTile and one wall per
\* MapWall of the active map, and every tile or wall update_map spawned is
\* one of them
C4_ChildrenMirrorMap ==
    (phase = "frame_end" /\ processed >= 1) =>
        /\ SceneRoots # {}
        /\ \A r \in SceneRoots :
               /\ Mirrors(ChildrenOf(r), maps[active_map][1])
               /\ Synchronized = ChildrenOf(r)

\* C5: once detect_changes has nothing unread left, it has sent one
\* MapEvent::Update of the active handle per Created or Modified
\* notification emitted for the active map, and none for another handle
C5_RebuildIffActive ==
    (phase = "update_map" /\ panicked = "" /\ asset_events = << >>) =>
        /\ forwarded = emitted
        /\ \A k \in 1..Len(map_events) : map_events[k].handle = active_map

\* the scene n more rebuilds of the unchanged active map leave
Rerun(n) ==
    apply_commands(entities,
        update_map([k \in 1..n |-> [handle |-> active_map]], entities, maps,
            images,
            [next_entity |-> next_entity, commands |-> << >>,
             materials |-> materials, panic |-> ""]).commands,
        1)
\* how many tile and wall entities of a scene carry each (grid location,
\* direction-or-none) pair
PairsOf(world) ==
    LET placed == {e \in world : e.kind # "root"}
    IN  [p \in {<<e.location, e.direction>> : e \in placed} |->
            Cardinality({e \in placed : <<e.location, e.direction>> = p})]

\* C6: after a frame that rebuilt the scene, rebuilding it again any number
\* of times from the unchanged map leaves the same collection of (grid
\* location, direction-or-none) pairs
C6_RebuildIdempotent ==
    (phase = "frame_end" /\ processed >= 1) =>
        \A n \in 1..MaxBatch : PairsOf(Rerun(n)) = PairsOf(entities)

(***************************************************************************)
(* The asset lookup of update_map                                           *)
(***************************************************************************)
\* C19: every MapEvent::Update that update_map is about to process names a
\* handle whose Map is in Assets<Map>, so the lookup with the message
\* "Map was created but is not in assets" does not fail
C19_MapPresentOnUpdate ==
    /\ (phase = "update_map" /\ panicked = "") =>
           \A k \in 1..Len(map_events) : maps[map_events[k].handle] # << >>
    /\ panicked # "Map was created but is not in assets"

(***************************************************************************)
(* The sprite of a spawned row                                              *)
(***************************************************************************)
\* the rows of a map in the order update_map spawns their entities, each
\* with the sheet its material comes from
SpawnRows(map) ==
    [k \in 1..(Len(map.tiles) + Len(map.walls)) |->
        IF k <= Len(map.tiles)
            THEN [sheet |-> map.tile_sprites, id |-> map.tiles[k].id]
            ELSE [sheet |-> map.wall_sprites,
                  id    |-> map.walls[k - Len(map.tiles)].id]]

\* the bundle a queued spawn_bundle command carries for entity id
BundleOf(id) ==
    (CHOOSE c \in {commands[j] : j \in 1..Len(commands)} :
        c.op = "spawn_bundle" /\ c.bundle.id = id).bundle

\* the queued commands that close a rebuild
Attachments ==
    {commands[j] : j \in {i \in 1..Len(commands) :
                              commands[i].op = "push_children"}}

\* C13: in every rebuild update_map queued, the entity of a tile or wall row
\* carries a material of the row's own sheet whose UV rect is the one of
\* sprite index 0 when the row has no id, and of index i when its id is i
C13_MissingIdIsSpriteZero ==
    (phase = "location_controller" /\ panicked = ""
        /\ maps[active_map] # << >>) =>
        \A c \in Attachments :
            LET rows == SpawnRows(maps[active_map][1])
            IN  /\ Len(c.children) = Len(rows)
                /\ \A k \in 1..Len(rows) :
                       LET m == materials[BundleOf(c.children[k]).material]
                           i == IF rows[k].id = << >> THEN 0
                                ELSE rows[k].id[1]
                       IN  /\ m.sprite_sheet = rows[k].sheet.sprite_sheet
                           /\ RectEq(m.sprite,
                                  index(material_allocator(rows[k].sheet,
                                                           images), i))

\* update_map has rebuilt a map whose first tile and only wall have no id
C13_Witness ==
    /\ phase = "location_controller" /\ panicked = ""
    /\ maps[active_map] = <<MapA>>
    /\ Attachments # {}
    /\ images[TileImage] # NoImage

(***************************************************************************)
(* The transform of a spawned wall                                          *)
(***************************************************************************)
\* the wall entities update_map created: the walls under a scene root
MapWalls == {e \in entities : e.kind = "wall" /\ e.parent # 0}

\* C16: whenever a wall entity created by update_map exists, its transform
\* carries the translation of its Location and the rotation of its Direction
C16_WallSpawnedRotated ==
    \A e \in MapWalls :
        /\ e.translation = to_translation(e.location)
        /\ e.rotation = to_rotation(e.direction)

(***************************************************************************)
(* The rotation of a Direction                                              *)
(***************************************************************************)
\* the walls direction_controller has turned to their current Direction
TurnedWalls == {e \in entities : e.kind = "wall" /\ ~e.changed_direction}

\* one step of the walk PositiveX -> NegativeY -> NegativeX -> PositiveY ->
\* PositiveX
NextInWalk(dir) ==
    CASE dir = "PositiveX" -> "NegativeY"
      [] dir = "NegativeY" -> "NegativeX"
      [] dir = "NegativeX" -> "PositiveY"
      [] dir = "PositiveY" -> "PositiveX"

\* C14: every Direction has a rotation about the vertical axis: a wall that
\* direction_controller turned is at 0 degrees for +X, 180 for -X, 270 for +Y
\* and 90 for -Y; a wall one step further in the walk PositiveX -> NegativeY
\* -> NegativeX -> PositiveY -> PositiveX is turned 90 degrees more, and the
\* fourth step is back at the rotation of the first
C14_DirectionRotations ==
    \A e \in TurnedWalls :
        /\ e.direction \in Directions
        /\ e.direction = "PositiveX" => e.rotation = 0
        /\ e.direction = "NegativeX" => e.rotation = 180
        /\ e.direction = "PositiveY" => e.rotation = 270
        /\ e.direction = "NegativeY" => e.rotation = 90
        /\ \A f \in TurnedWalls :
               f.direction = NextInWalk(e.direction) =>
                   f.rotation = (e.rotation + 90) % 360
        /\ \A f \in TurnedWalls :
               f.direction =
                   NextInWalk(NextInWalk(NextInWalk(NextInWalk(e.direction))))
                   => f.rotation = (e.rotation + 4 * 90) % 360

\* direction_controller has turned a wall of each of the four Directions
C14_Witness ==
    /\ phase = "apply"
    /\ \A d \in Directions : \E e \in TurnedWalls : e.direction = d

(***************************************************************************)
(* The order of the commands of successive rebuilds                         *)
(***************************************************************************)
\* positions of the queued commands that close a rebuild
Pushes == {p \in 1..Len(commands) : commands[p].op = "push_children"}

\* the commands that end at position p are those of one whole rebuild of one
\* root: (spawn,) despawn_descendants, insert, one spawn_bundle per child,
\* push_children; and they start where the queue or the rebuild before ends
WholeRebuildAt(p) ==
    LET c == commands[p]
        n == Len(c.children)
        d == p - n - 2
    IN  /\ d >= 1
        /\ commands[d].op = "despawn_descendants"
        /\ commands[d].entity = c.entity
        /\ commands[d + 1].op = "insert"
        /\ commands[d + 1].entity = c.entity
        /\ \A k \in 1..n :
               /\ commands[d + 1 + k].op = "spawn_bundle"
               /\ commands[d + 1 + k].bundle.id = c.children[k]
        /\ IF d > 1 /\ commands[d - 1].op = "spawn"
               THEN /\ commands[d - 1].entity = c.entity
                    /\ d = 2 \/ commands[d - 2].op = "push_children"
               ELSE d = 1 \/ commands[d - 1].op = "push_children"

\* the world after the first j queued commands
AfterCommands(j) == apply_commands(entities, SubSeq(commands, 1, j), 1)

\* the ids of the children a root holds in a world
HeldBy(r, world) == {e.id : e \in {x \in world : x.parent = r}}

\* the children are those of one rebuild: all of them were there before this
\* frame's commands, or all of them were attached by one queued rebuild
OfOneRebuild(K) ==
    \/ K \subseteq {e.id : e \in entities}
    \/ \E p \in Pushes :
           K \subseteq {commands[p].children[k] :
                           k \in 1..Len(commands[p].children)}

\* C17: the commands update_map queued in a frame are those of rebuild 1,
\* then those of rebuild 2, and so on, each rebuild whole; applied in that
\* order they never leave a root holding children of two rebuilds, and at
\* the end each rebuilt root holds exactly the children of its last rebuild
C17_RebuildsDoNotOverlap ==
    phase = "apply" =>
        /\ \A p \in Pushes : WholeRebuildAt(p)
        /\ commands # << >> => Len(commands) \in Pushes
        /\ \A j \in 0..Len(commands) :
               \A r \in {e.id : e \in {x \in AfterCommands(j) :
                                           x.kind = "root"}} :
                   OfOneRebuild(HeldBy(r, AfterCommands(j)))
        /\ \A p \in Pushes :
               (\A q \in Pushes :
                    commands[q].entity = commands[p].entity => q <= p) =>
                   HeldBy(commands[p].entity, AfterCommands(Len(commands)))
                       = {commands[p].children[k] :
                              k \in 1..Len(commands[p].children)}

\* two rebuilds of a root that already holds children are queued
C17_Witness ==
    /\ phase = "apply"
    /\ \E p, q \in Pushes :
           /\ p < q
           /\ commands[p].entity = commands[q].entity
           /\ HeldBy(commands[p].entity, entities) # {}

(***************************************************************************)
(* Placement after a replaced Location or Direction                         *)
(* (the world inspector edits the components registered in MapPlugin::build *)
(* and the Transform of an entity)                                          *)
(***************************************************************************)
\* the entities the inspector edits, the values it gives them
Inspected == {1, 6}
InspectorLocations == {<<0, 0>>, <<2, -1>>}
InspectorTransform == [translation |-> <<1, 1, 1>>, rotation |-> 45]

\* the inspector replaces the Location of an entity
InspectLocation(id, l) ==
    /\ Running /\ phase = "assets" /\ tick < MaxTicks
    /\ \E e \in entities : e.id = id /\ e.location # l
    /\ entities' =
           {IF e.id = id
                THEN [e EXCEPT !.location = l, !.changed_location = TRUE]
                ELSE e : e \in entities}
    /\ UNCHANGED <<active_map, maps, images, asset_events, map_events,
                   next_entity, commands, materials, panicked, phase, tick,
                   reader_keeps_unread, gvars, hvars, cvars, svars>>

\* the inspector replaces the Direction of a wall
InspectDirection(id, d) ==
    /\ Running /\ phase = "assets" /\ tick < MaxTicks
    /\ \E e \in entities : e.id = id /\ e.kind = "wall" /\ e.direction # d
    /\ entities' =
           {IF e.id = id
                THEN [e EXCEPT !.direction = d, !.changed_direction = TRUE]
                ELSE e : e \in entities}
    /\ UNCHANGED <<active_map, maps, images, asset_events, map_events,
                   next_entity, commands, materials, panicked, phase, tick,
                   reader_keeps_unread, gvars, hvars, cvars, svars>>

\* the inspector writes the Transform of an entity, not its grid state
InspectTransform(id) ==
    /\ Running /\ phase = "assets" /\ tick < MaxTicks
    /\ \E e \in entities :
           /\ e.id = id
           /\ <<e.translation, e.rotation>> #
                  <<InspectorTransform.translation, InspectorTransform.rotation>>
    /\ entities' =
           {IF e.id = id
                THEN [e EXCEPT
                         !.translation = InspectorTransform.translation,
                         !.rotation = InspectorTransform.rotation]
                ELSE e : e \in entities}
    /\ UNCHANGED <<active_map, maps, images, asset_events, map_events,
                   next_entity, commands, materials, panicked, phase, tick,
                   reader_keeps_unread, gvars, hvars, cvars, svars>>

\* the frames of the application while no map is loaded and the inspector
\* edits the entities of main.rs test_map
InspectNext ==
    \/ \E id \in Inspected : \E l \in InspectorLocations :
           InspectLocation(id, l)
    \/ \E id \in Inspected : \E d \in Directions : InspectDirection(id, d)
    \/ \E id \in Inspected : InspectTransform(id)
    \/ RunSystems
    \/ DetectChanges
    \/ UpdateMap
    \/ LocationController
    \/ DirectionController
    \/ ApplyCommands
    \/ NextFrame

InspectSpec == Init /\ [][InspectNext]_vars

\* the entity of entities' that was e
After(e) == CHOOSE f \in entities' : f.id = e.id

\* C18: a run of location_controller gives every entity whose Location was
\* replaced since the last run the translation (x*TILE_SIZE, 0, y*TILE_SIZE)
\* and keeps its rotation; a run of direction_controller gives every wall
\* whose Direction was replaced since the last run the rotation of the new
\* Direction and keeps its translation; neither writes the transform of an
\* entity whose Location, or Direction, did not change
C18_PlacementRetriggered ==
    [][ /\ (phase = "location_controller" /\ phase' = "direction_controller")
            => \A e \in entities :
                   /\ After(e).rotation = e.rotation
                   /\ After(e).translation =
                          IF e.kind # "root" /\ e.changed_location
                              THEN <<e.location[1] * TILE_SIZE, 0,
                                     e.location[2] * TILE_SIZE>>
                              ELSE e.translation
                   /\ ~After(e).changed_location
        /\ (phase = "direction_controller" /\ phase' = "apply")
            => \A e \in entities :
                   /\ After(e).translation = e.translation
                   /\ After(e).rotation =
                          IF e.kind = "wall" /\ e.changed_direction
                              THEN to_rotation(e.direction)
                              ELSE e.rotation
                   /\ ~After(e).changed_direction
      ]_vars

\* both controllers have run after the inspector gave wall 6 a new Location
\* and a new Direction and wrote the Transform of tile 1: the wall is placed
\* anew, the tile keeps the Transform it was given
C18_Witness ==
    /\ phase = "apply" /\ tick >= 1
    /\ \E e \in entities :
           /\ e.id = 6
           /\ e.location = <<2, -1>> /\ e.direction = "PositiveY"
           /\ e.translation = <<2 * TILE_SIZE, 0, -1 * TILE_SIZE>>
           /\ e.rotation = 270
    /\ \E e \in entities :
           /\ e.id = 1
           /\ e.translation = InspectorTransform.translation
           /\ e.rotation = InspectorTransform.rotation

(***************************************************************************)
(* The camera: the inspector edits the controls and the basis,              *)
(* YawPitchControls::system resolves them into the Transform                *)
(***************************************************************************)
\* the values the inspector enters
ControlInputs ==
    [focus : {<<0, 0, 0>>, <<Scale, 0, -2 * Scale>>},
     pitch : {0, 45, 315},
     yaw   : {0, 45, 90, 225},
     dist  : {Scale, 2 * Scale}]
BasisInputs ==
    {DefaultBasis,
     [up |-> <<0, 0, Scale>>, forward |-> <<Scale, 0, 0>>],
     [up |-> <<0, -Scale, 0>>, forward |-> <<Scale, 0, 0>>]}

InspectControls(c) ==
    /\ c # controls
    /\ controls' = c
    /\ camera_changed' = TRUE
    /\ UNCHANGED <<basis, camera, hvars, wvars, gvars, svars>>

InspectBasis(b) ==
    /\ b # basis
    /\ basis' = b
    /\ camera_changed' = TRUE
    /\ UNCHANGED <<controls, camera, hvars, wvars, gvars, svars>>

\* YawPitchControls::system: the query matches when either component changed
YawPitchSystem ==
    /\ camera_changed
    /\ camera' = transform(controls, basis)
    /\ camera_changed' = FALSE
    /\ UNCHANGED <<controls, basis, hvars, wvars, gvars, svars>>

CameraNext ==
    \/ \E c \in ControlInputs : InspectControls(c)
    \/ \E b \in BasisInputs : InspectBasis(b)
    \/ YawPitchSystem

CameraSpec == Init /\ [][CameraNext]_vars

\* two fixed-point vectors agree within 0.004 in every coordinate
Tolerance == 4
Near(a, b) ==
    \A k \in 1..3 : a[k] - b[k] <= Tolerance /\ b[k] - a[k] <= Tolerance

\* the point at distance dist from the focus, pitch degrees above the plane
\* across up and yaw degrees around up from forward towards cross(up,
\* forward), for an orthonormal basis
OnSphere(c, b) ==
    LET side == Cross(b.up, b.forward)
        flat == (Cos(c.pitch) * Cos(c.yaw)) \div Scale
        turn == (Cos(c.pitch) * Sin(c.yaw)) \div Scale
    IN  VAdd(c.focus,
             VMul(VAdd(VAdd(VMul(b.forward, flat), VMul(side, turn)),
                       VMul(b.up, Sin(c.pitch))),
                  c.dist))

\* C15: once the system has resolved the controls, the camera is at focus +
\* (yaw rotation about up * rotation by -pitch about cross(up, forward) *
\* forward) * dist, which is the point OnSphere, and its view axis passes
\* through the focus; with the default basis and controls that position is
\* (0.5, 0.707, 0.5) and the camera looks at the origin
C15_CameraPosition ==
    ~camera_changed =>
        /\ Near(camera.translation, OnSphere(controls, basis))
        /\ Near(VSub(camera.translation, VMul(camera.back, controls.dist)),
                controls.focus)
        /\ (controls = DefaultControls /\ basis = DefaultBasis) =>
               /\ Near(camera.translation, <<500, 707, 500>>)
               /\ Near(VMul(camera.back, -Scale), <<-500, -707, -500>>)

\* the system has resolved the default controls with the default basis and
\* moved the camera away from where it was spawned
C15_Witness ==
    /\ ~camera_changed
    /\ controls = DefaultControls /\ basis = DefaultBasis
    /\ camera.translation # <<0, 0, 0>>

(***************************************************************************)
(* Map files that do not parse                                              *)
(***************************************************************************)
\* what the watched file of the active map can hold
MapFiles == {YamlA, YamlB, YamlBroken}

\* the application while the file of the active map is saved in any state
LoaderNext ==
    \/ \E bytes \in MapFiles : LoadMap(TestMap, bytes)
    \/ \E bytes \in MapFiles : ReloadMap(TestMap, bytes)
    \/ RemoveMap(TestMap)
    \/ \E i \in ImageHandles : DecodeImage(i)
    \/ RunSystems
    \/ DetectChanges
    \/ UpdateMap
    \/ LocationController
    \/ DirectionController
    \/ ApplyCommands
    \/ NextFrame

LoaderSpec == Init /\ [][LoaderNext]_vars

\* C12: a load that fails (the file is not the YAML of a MapFile) stores no
\* asset and emits no notification: Assets<Map>, the unread notifications,
\* the queued MapEvents, the entities, the queued commands and the panic
\* state are what they were, and the next run of the systems finds nothing
\* to do for it
C12_MalformedLoadIsLocal ==
    [][ \A h \in MapHandles :
            (load_state'[h] = "Failed" /\ load_state[h] # "Failed") =>
                /\ maps' = maps
                /\ asset_events' = asset_events
                /\ notified' = notified
                /\ map_events' = map_events
                /\ entities' = entities
                /\ commands' = commands
                /\ panicked' = panicked
      ]_vars

\* a frame has run to its end after the reload of the active map failed,
\* with the scene of the earlier, well-formed file still in place
C12_Witness ==
    /\ load_state[TestMap] = "Failed"
    /\ maps[TestMap] # << >>
    /\ phase = "frame_end" /\ tick >= 1
    /\ processed = 0 /\ panicked = ""
    /\ \E r \in entities : r.kind = "root" /\ r.map = TestMap

(***************************************************************************)
(* Frames without end: the UV rects after the sheet images are decoded      *)
(***************************************************************************)
\* App::run goes on after the last frame in which an asset changes
RunSystemsOn ==
    /\ Running /\ phase = "assets" /\ tick >= MaxTicks
    /\ phase' = "detect_changes"
    /\ UNCHANGED <<active_map, maps, images, asset_events, map_events,
                   entities, next_entity, commands, materials, panicked, tick,
                   reader_keeps_unread, gvars, hvars, cvars, svars>>

NextFrameOn ==
    /\ Running /\ phase = "frame_end" /\ tick >= MaxTicks
    /\ phase' = "assets"
    /\ UNCHANGED <<active_map, maps, images, asset_events, map_events,
                   entities, next_entity, commands, materials, panicked, tick,
                   reader_keeps_unread, gvars, hvars, cvars, svars>>

\* the steps of the schedule other than update_map
ScheduleStep ==
    \/ RunSystems
    \/ RunSystemsOn
    \/ DetectChanges
    \/ LocationController
    \/ DirectionController
    \/ ApplyCommands
    \/ tick < MaxTicks /\ NextFrame
    \/ NextFrameOn

\* the application with the file of the active map loaded and edited and the
\* sheet images decoded during the first MaxTicks frames
LiveNext ==
    \/ \E m \in MapContents(TestMap) : LoadMap(TestMap, Yaml(m))
    \/ \E m \in MapContents(TestMap) : ReloadMap(TestMap, Yaml(m))
    \/ \E i \in ImageHandles : DecodeImage(i)
    \/ ScheduleStep
    \/ UpdateMap

\* update_map is enabled exactly when the process runs and its turn has
\* come, and its step ends its turn: weak fairness of update_map is that the
\* schedule is again and again not waiting for it
UpdateMapRuns == []<>(~(Running /\ phase = "update_map"))

\* the schedule never stops running the systems of a frame
LiveSpec ==
    Init /\ [][LiveNext]_vars /\ WF_vars(ScheduleStep) /\ UpdateMapRuns

\* the children of the scene roots
SceneChildren == {e \in entities : e.kind # "root" /\ e.parent # 0}

\* the row of the active map a child was spawned for: update_map spawns the
\* children of one rebuild in the order of the rows, with successive ids
RowFor(e) ==
    LET first == CHOOSE i \in HeldBy(e.parent, entities) :
                     \A j \in HeldBy(e.parent, entities) : i <= j
    IN  SpawnRows(maps[active_map][1])[e.id - first + 1]

\* the UV rect of a child's sprite, from the pixel size of the decoded sheet
RealRect(e) ==
    index(material_allocator(RowFor(e).sheet, ImageSize),
          IF RowFor(e).id = << >> THEN 0 ELSE RowFor(e).id[1])

\* the rect update_map gives the child when the sheet is not decoded: the
\* allocator takes grid_dimensions for the size of the sheet
FallbackRect(e) ==
    index(material_allocator(RowFor(e).sheet,
                             [i \in ImageHandles |-> NoImage]),
          IF RowFor(e).id = << >> THEN 0 ELSE RowFor(e).id[1])

\* the scene is the one of the active map as it is: one root, its children
\* mirror the map, and no notification is left to read
SceneUpToDate ==
    /\ phase = "frame_end" /\ panicked = ""
    /\ asset_events = << >>
    /\ maps[active_map] # << >>
    /\ Cardinality(SceneRoots) = 1
    /\ \A r \in SceneRoots :
           /\ r.map = active_map
           /\ Mirrors(ChildrenOf(r), maps[active_map][1])
           /\ Synchronized = ChildrenOf(r)

\* every sheet image is decoded
AllDecoded == \A i \in ImageHandles : images[i] # NoImage

\* a child still shows the rect of the undecoded sheet, which is not the
\* rect of its sprite on the real sheet
SomeRectStale ==
    \E e \in SceneChildren :
        /\ RectEq(materials[e.material].sprite, FallbackRect(e))
        /\ ~RectEq(materials[e.material].sprite, RealRect(e))

\* every child shows the rect of its sprite on the real sheet
AllRectsReal ==
    \A e \in SceneChildren : RectEq(materials[e.material].sprite, RealRect(e))

\* C11: when the scene was rebuilt before a sheet image was decoded and its
\* children carry rects computed from grid_dimensions, then, once the images
\* are decoded, the frames that follow lead to a scene in which every child
\* has the rect computed from the real size of its sheet
C11_StaleRectsHeal ==
    (SceneUpToDate /\ AllDecoded /\ SomeRectStale)
        ~> (SceneUpToDate /\ AllRectsReal)
====
